---------------------------- MODULE Spec2Model ----------------------------
(***************************************************************************)
(* A model of mhcflurry's dataset containers (mhcflurry/dataset.py) and of *)
(* the encoding and scoring helpers (experiments/training_helpers.py).     *)
(*                                                                         *)
(* Python values are modelled as follows.                                  *)
(*   - A str is the sequence of its character codes, so that sorted()      *)
(*     is Python's lexicographic order.                                    *)
(*   - A dict / OrderedDict is the sequence of its <<key, value>> items    *)
(*     in iteration order.                                                 *)
(*   - An object is the record of the attributes assigned to it so far.    *)
(*   - A call yields [exc |-> the exception raised or "none", ret |-> the  *)
(*     value returned].                                                    *)
(*   - A positive IC50 is known by its logarithm to the base 500 (the      *)
(*     binder threshold), a whole number: v = 500^log. Floats computed     *)
(*     from it are exact fractions, or one of -inf, +inf, nan.             *)
(*                                                                         *)
(* dataset.py as it stands does not compile (a missing comma in its import *)
(* list, unfinished method bodies); every method modelled here is taken    *)
(* statement by statement from the text it has. The helpers imported from  *)
(* mhcflurry.common, mhcflurry.dataset_helpers and mhcflurry.data_helpers  *)
(* are not part of the source at hand and are modelled from their          *)
(* description.                                                            *)
(***************************************************************************)
EXTENDS Integers, Sequences, FiniteSets, TLC

VARIABLES args, self, op, ret, exc

vars == <<args, self, op, ret, exc>>

\* ------------------------------------------------------------------ bounds

\* Largest number of alleles in an input mapping.
MaxAlleles == 3
\* Largest number of measurements (rows) in one array.
MaxLen == 2
\* Largest |log IC50| and largest log max_ic50, to the base 500.
MaxLog == 2
\* Largest number of rows of a dataset that is a value of an input mapping.
MaxRows == 1
\* Largest number of labels scored.
MaxLabels == 3
\* The predictions drawn are the multiples of 1/PredDen in [0, 1].
PredDen == 2

\* ------------------------------------------------------- Python primitives

None == [none |-> TRUE]
NoObject == [unconstructed |-> TRUE]

Return(v) == [exc |-> "none", ret |-> v]
Raise(e) == [exc |-> e, ret |-> None]

HasAttr(obj, name) == name \in DOMAIN obj

Range(s) == {s[i] : i \in DOMAIN s}

\* The sequences over S of length at most n.
SeqsUpTo(S, n) == UNION {[1..k -> S] : k \in 0..n}

\* The sequences over S of length at most n without a repeated element
\* (the key sequences of a mapping).
DistinctSeqsUpTo(S, n) ==
    {s \in SeqsUpTo(S, n) : \A i, j \in DOMAIN s : i # j => s[i] # s[j]}

\* Python's str comparison a < b: lexicographic on character codes.
RECURSIVE StrLess(_, _)
StrLess(a, b) ==
    IF b = <<>> THEN FALSE
    ELSE IF a = <<>> THEN TRUE
    ELSE IF Head(a) # Head(b) THEN Head(a) < Head(b)
    ELSE StrLess(Tail(a), Tail(b))

RECURSIVE InsertSorted(_, _)
InsertSorted(x, s) ==
    IF s = <<>> THEN <<x>>
    ELSE IF StrLess(x, Head(s)) THEN <<x>> \o s
    ELSE <<Head(s)>> \o InsertSorted(x, Tail(s))

\* sorted(seq of str): ascending, stable.
RECURSIVE sorted(_)
sorted(s) ==
    IF s = <<>> THEN <<>>
    ELSE InsertSorted(s[Len(s)], sorted(SubSeq(s, 1, Len(s) - 1)))

\* dict.keys()
DictKeys(d) == [i \in DOMAIN d |-> d[i][1]]

DictHas(d, k) == \E i \in DOMAIN d : d[i][1] = k

DictGet(d, k) == d[CHOOSE i \in DOMAIN d : d[i][1] = k][2]

\* d[k] = v: an existing key keeps its place and takes the new value,
\* a new key is added at the end.
DictSet(d, k, v) ==
    IF DictHas(d, k)
    THEN [i \in DOMAIN d |-> IF d[i][1] = k THEN <<k, v>> ELSE d[i]]
    ELSE Append(d, <<k, v>>)

\* ------------------------------------------------------------ allele names

\* Raw spellings: "A1", "A2", "a2", "A*2", "B7", "B-7".
RawAlleleNames ==
    { <<65, 49>>, <<65, 50>>, <<97, 50>>, <<65, 42, 50>>,
      <<66, 55>>, <<66, 45, 55>> }

Upper(c) == IF c >= 97 /\ c <= 122 THEN c - 32 ELSE c

\* "-", "*", ":"
Separators == {45, 42, 58}

\* mhcflurry.common.normalize_allele_name: upper case, separators removed.
RECURSIVE normalize_allele_name(_)
normalize_allele_name(name) ==
    IF name = <<>> THEN <<>>
    ELSE IF Head(name) \in Separators THEN normalize_allele_name(Tail(name))
    ELSE <<Upper(Head(name))>> \o normalize_allele_name(Tail(name))

\* ------------------------------------------------- MultipleAlleleDataset

\* Values of an input mapping: objects with a peptides attribute, which is
\* all __len__ reads.
Peptides == {"SIINFEKL", "AAAAAAAAA"}

DatasetValues == {[peptides |-> p] : p \in SeqsUpTo(Peptides, MaxRows)}

\* A mapping: distinct raw keys in iteration order, each with a value.
Mappings(Values) ==
    UNION { {[i \in DOMAIN ks |-> <<ks[i], vs[i]>>] : vs \in [DOMAIN ks -> Values]}
            : ks \in DistinctSeqsUpTo(RawAlleleNames, MaxAlleles) }

\* { normalize_allele_name(k): v for (k, v) in items }: a later item with
\* an equal normalized key replaces the earlier one's value.
RECURSIVE DictComprehension(_)
DictComprehension(items) ==
    IF items = <<>> THEN <<>>
    ELSE LET last == items[Len(items)]
         IN DictSet(DictComprehension(SubSeq(items, 1, Len(items) - 1)),
                    normalize_allele_name(last[1]), last[2])

MultipleAlleleDataset__init__(single_allele_datasets) ==
    [single_allele_datasets |-> DictComprehension(single_allele_datasets)]

\* The names bound at module level in dataset.py.
ModuleNames ==
    {"OrderedDict", "groupby", "np", "string_types", "integer_types",
     "require_iterable_of", "require_instance", "MAX_IC50",
     "normalize_allele_name", "SingleAlleleDataset", "MultipleAlleleDataset"}

\* return list(sorted(single_allele_datasets.keys())): the name is looked
\* up among the locals, then at module level.
allele_names(obj) ==
    LET locals == [self |-> obj]
        name == "single_allele_datasets"
    IN IF name \in DOMAIN locals
       THEN Return(sorted(DictKeys(locals[name])))
       ELSE IF name \in ModuleNames
       THEN Raise("AttributeError")
       ELSE Raise("NameError")

\* self[allele_name]
getitem(obj, allele_name) ==
    LET n == normalize_allele_name(allele_name)
    IN IF DictHas(obj.single_allele_datasets, n)
       THEN Return(DictGet(obj.single_allele_datasets, n))
       ELSE Raise("KeyError")

\* SingleAlleleDataset.__len__
len(dataset) ==
    IF HasAttr(dataset, "peptides") THEN Return(Len(dataset.peptides))
    ELSE Raise("AttributeError")

\* list(self.items()): the generator, run to its end.
items(obj) ==
    LET names == allele_names(obj)
    IN IF names.exc # "none" THEN names
       ELSE Return([i \in DOMAIN names.ret |->
                       <<names.ret[i], getitem(obj, names.ret[i]).ret>>])

\* OrderedDict((k, len(v)) for (k, v) in self.items())
counts(obj) ==
    LET its == items(obj)
    IN IF its.exc # "none" THEN its
       ELSE Return([i \in DOMAIN its.ret |->
                       <<its.ret[i][1], len(its.ret[i][2]).ret>>])

\* ---- the life of one MultipleAlleleDataset

Init ==
    /\ args \in {[single_allele_datasets |-> m] : m \in Mappings(DatasetValues)}
    /\ self = NoObject
    /\ op = "none"
    /\ ret = None
    /\ exc = "none"

Construct ==
    /\ self = NoObject
    /\ self' = MultipleAlleleDataset__init__(args.single_allele_datasets)
    /\ op' = "__init__"
    /\ ret' = None
    /\ exc' = "none"
    /\ UNCHANGED args

Call(name, r) ==
    /\ op' = name
    /\ ret' = r.ret
    /\ exc' = r.exc
    /\ UNCHANGED <<args, self>>

AlleleNames == self # NoObject /\ Call("allele_names", allele_names(self))

GetItem ==
    /\ self # NoObject
    /\ \E k \in RawAlleleNames : Call("__getitem__", getitem(self, k))

Items == self # NoObject /\ Call("items", items(self))

Counts == self # NoObject /\ Call("counts", counts(self))

Next == Construct \/ AlleleNames \/ GetItem \/ Items \/ Counts

Spec == Init /\ [][Next]_vars


\* Two distinct keys of the mapping normalize to the same allele name.
Collides(m) ==
    \E i, j \in DOMAIN m :
        i # j /\ normalize_allele_name(m[i][1]) = normalize_allele_name(m[j][1])

NormalizedKeys(m) == {normalize_allele_name(m[i][1]) : i \in DOMAIN m}

\* C1: constructing a MultipleAlleleDataset from a mapping in which two
\* distinct keys normalize to the same allele name fails with a ValueError;
\* it never completes keeping only one of the two datasets.
C1_CollisionRaises ==
    (op = "__init__" /\ Collides(args.single_allele_datasets))
        => exc = "ValueError"

\* A strictly ascending sequence of names: sorted, without duplicates.
StrictlyAscending(s) ==
    \A i \in DOMAIN s : i < Len(s) => StrLess(s[i], s[i + 1])

\* The names listed are exactly the normalized keys, in ascending order.
IsSortedNamesOf(names, m) ==
    /\ StrictlyAscending(names)
    /\ Range(names) = NormalizedKeys(m)

\* C7: allele_names() returns the normalized keys in ascending order with
\* no duplicates, whatever the insertion order, and items() and counts()
\* enumerate the alleles in exactly that order.
C7_SortedEnumeration ==
    op \in {"allele_names", "items", "counts"} =>
        /\ exc = "none"
        /\ IsSortedNamesOf(IF op = "allele_names" THEN ret ELSE DictKeys(ret),
                           args.single_allele_datasets)

\* ------------------------------------------------- SingleAlleleDataset

\* The logarithms of the positive IC50 values drawn.
PositiveLogs == (-MaxLog)..MaxLog

\* The logarithms of the max_ic50 values drawn: max_ic50 > 1.
MaxIC50Logs == 1..MaxLog

\* The only k-mer size drawn: the default.
DefaultKmerSize == 9

\* dataset_helpers.prepare_peptides_array: the peptides as an array.
prepare_peptides_array(peptides) == peptides

\* dataset_helpers.prepare_ic50_values_array: the values as an array, of
\* the required length.
prepare_ic50_values_array(ic50_values, required_count) ==
    IF Len(ic50_values) # required_count THEN Raise("ValueError")
    ELSE Return(ic50_values)

\* The peptides in the order of their first occurrence.
RECURSIVE FirstOccurrences(_)
FirstOccurrences(peptides) ==
    IF peptides = <<>> THEN <<>>
    ELSE LET init == FirstOccurrences(SubSeq(peptides, 1, Len(peptides) - 1))
             last == peptides[Len(peptides)]
         IN IF last \in Range(init) THEN init ELSE Append(init, last)

RECURSIVE SumOver(_, _)
SumOver(f, S) ==
    IF S = {} THEN 0
    ELSE LET x == CHOOSE y \in S : TRUE IN f[x] + SumOver(f, S \ {x})

\* dataset_helpers.combine_multiple_peptide_ic50_measurements: one row per
\* distinct peptide, its IC50 the geometric mean of the peptide's values,
\* that is the fraction <<sum of the logs, count>> as a logarithm.
combine_multiple_peptide_ic50_measurements(peptides, ic50_values) ==
    LET uniq == FirstOccurrences(peptides)
        rows(p) == {i \in DOMAIN peptides : peptides[i] = p}
    IN << uniq,
          [k \in DOMAIN uniq |->
              <<SumOver(ic50_values, rows(uniq[k])), Cardinality(rows(uniq[k]))>>] >>

\* SingleAlleleDataset.__init__: the attributes assigned, in order, until
\* the constructor returns or raises.
SingleAlleleDataset__init__(a) ==
    LET s1 == [allele_name |-> normalize_allele_name(a.allele_name),
               max_ic50 |-> a.max_ic50,
               kmer_size |-> a.kmer_size,
               original_peptides |-> prepare_peptides_array(a.peptides)]
    IN \* required_count=len(self.peptides) is evaluated before the call
       IF ~HasAttr(s1, "peptides")
       THEN [self |-> s1, exc |-> "AttributeError"]
       ELSE LET prep == prepare_ic50_values_array(a.ic50_values, Len(s1.peptides))
            IN IF prep.exc # "none"
               THEN [self |-> s1, exc |-> prep.exc]
               ELSE LET s2 == [original_ic50_values |-> prep.ret] @@ s1
                        comb == combine_multiple_peptide_ic50_measurements(
                                    s2.original_peptides, s2.original_ic50_values)
                    IN [self |-> [peptides |-> comb[1], ic50_values |-> comb[2]] @@ s2,
                        exc |-> "none"]

InitSingle ==
    /\ args \in [allele_name : RawAlleleNames,
                 peptides : SeqsUpTo(Peptides, MaxLen),
                 ic50_values : SeqsUpTo(PositiveLogs, MaxLen),
                 weights : {None},
                 max_ic50 : MaxIC50Logs,
                 kmer_size : {DefaultKmerSize},
                 combine_redundant_measurements : BOOLEAN]
    /\ self = NoObject
    /\ op = "none"
    /\ ret = None
    /\ exc = "none"

ConstructSingle ==
    /\ self = NoObject
    /\ LET r == SingleAlleleDataset__init__(args)
       IN /\ self' = r.self
          /\ exc' = r.exc
    /\ op' = "__init__"
    /\ ret' = None
    /\ UNCHANGED args

NextSingle == ConstructSingle

SpecSingle == InitSingle /\ [][NextSingle]_vars

\* The number of rows of the raw input that hold peptide p.
CountOf(peptides, p) == Cardinality({i \in DOMAIN peptides : peptides[i] = p})

\* C2: constructing a SingleAlleleDataset with peptides and ic50_values of
\* different lengths fails with a ValueError, and with equal lengths the
\* construction succeeds and stores both the raw and the combined views.
C2_LengthCheck ==
    op = "__init__" =>
        IF Len(args.peptides) # Len(args.ic50_values)
        THEN exc = "ValueError"
        ELSE /\ exc = "none"
             /\ {"original_peptides", "original_ic50_values",
                 "peptides", "ic50_values"} \subseteq DOMAIN self

C10_KeepsDuplicateRows ==
    (/\ op = "__init__"
     /\ Len(args.peptides) = Len(args.ic50_values)
     /\ ~args.combine_redundant_measurements) =>
        /\ {"peptides", "weights", "original_peptides"} \subseteq DOMAIN self
        /\ Len(self.peptides) = Len(self.original_peptides)
        /\ \A i \in DOMAIN self.peptides :
              self.weights[i] = <<1, CountOf(args.peptides, self.peptides[i])>>

\* ------------------------------------------------- encode_allele_dataset

\* An IC50 value: b^log, zero, or -(b^log).
Pos(e) == [sign |-> "+", log |-> e]
Zero == [sign |-> "0", log |-> 0]
Neg(e) == [sign |-> "-", log |-> e]

IC50Values == {Pos(e) : e \in PositiveLogs} \cup {Zero, Neg(0)}

\* A float: the fraction num/den (den > 0), or -inf, +inf, nan.
Fin(n, d) == [kind |-> "fin", num |-> n, den |-> d]
NegInf == [kind |-> "-inf", num |-> 0, den |-> 1]
PosInf == [kind |-> "+inf", num |-> 0, den |-> 1]
NaN == [kind |-> "nan", num |-> 0, den |-> 1]

\* np.log, to the base 500: -inf at 0 and nan below 0 (with a warning).
np_log(v) ==
    IF v.sign = "+" THEN Fin(v.log, 1)
    ELSE IF v.sign = "0" THEN NegInf
    ELSE NaN

\* x / m for a finite m > 0.
np_divide(x, m) == IF x.kind = "fin" THEN Fin(x.num, x.den * m) ELSE x

\* np.minimum(1.0, x): nan is propagated.
np_minimum_one(x) ==
    IF x.kind = "nan" THEN NaN
    ELSE IF x.kind = "-inf" THEN NegInf
    ELSE IF x.kind = "+inf" THEN Fin(1, 1)
    ELSE IF x.num >= x.den THEN Fin(1, 1)
    ELSE x

\* 1.0 - x
one_minus(x) ==
    IF x.kind = "fin" THEN Fin(x.den - x.num, x.den)
    ELSE IF x.kind = "-inf" THEN PosInf
    ELSE IF x.kind = "+inf" THEN NegInf
    ELSE NaN

\* The number of amino acids: n_indices.
NIndices == 20

\* One index-encoded k-mer (shortened to two residues).
IndexRow == <<0, 19>>

\* data_helpers.indices_to_hotshot_encoding: every index becomes the
\* indicator vector of length n_indices.
indices_to_hotshot_encoding(X, n_indices) ==
    [r \in DOMAIN X |->
        [c \in DOMAIN X[r] |->
            [j \in 1..n_indices |-> IF j = X[r][c] + 1 THEN 1 ELSE 0]]]

\* An AlleleDataset: X with one row per measurement, and ic50.
AlleleDataset(ic50) == [X |-> [i \in DOMAIN ic50 |-> IndexRow], ic50 |-> ic50]

\* Y_allele = 1.0 - np.minimum(1.0, np.log(ic50_allele) / np.log(max_ic50)),
\* element-wise.
AffinityTransform(ic50_allele, max_ic50) ==
    [i \in DOMAIN ic50_allele |->
        one_minus(np_minimum_one(np_divide(np_log(ic50_allele[i]), max_ic50)))]

encode_allele_dataset(allele_dataset, max_ic50, binary_encoding) ==
    LET X_allele == IF binary_encoding
                    THEN indices_to_hotshot_encoding(allele_dataset.X, NIndices)
                    ELSE allele_dataset.X
        ic50_allele == allele_dataset.ic50
    IN Return(<<X_allele, AffinityTransform(ic50_allele, max_ic50), ic50_allele>>)

InitEncode ==
    /\ args \in [allele_dataset :
                    {AlleleDataset(v) : v \in SeqsUpTo(IC50Values, MaxLen)},
                 max_ic50 : MaxIC50Logs,
                 binary_encoding : BOOLEAN]
    /\ self = NoObject
    /\ op = "none"
    /\ ret = None
    /\ exc = "none"

EncodeAlleleDataset ==
    /\ op = "none"
    /\ LET r == encode_allele_dataset(args.allele_dataset, args.max_ic50,
                                      args.binary_encoding)
       IN /\ ret' = r.ret
          /\ exc' = r.exc
    /\ op' = "encode_allele_dataset"
    /\ UNCHANGED <<args, self>>

NextEncode == EncodeAlleleDataset

SpecEncode == InitEncode /\ [][NextEncode]_vars

\* C3: for every IC50 value v with 0 < v <= max_ic50 the regression target
\* Y lies in [0, 1], and Y is exactly 0 when v >= max_ic50.
C3_TargetInUnitInterval ==
    op = "encode_allele_dataset" =>
        /\ exc = "none"
        /\ \A i \in DOMAIN args.allele_dataset.ic50 :
              LET v == args.allele_dataset.ic50[i]
                  y == ret[2][i]
              IN /\ (v.sign = "+" /\ v.log <= args.max_ic50) =>
                        (y.kind = "fin" /\ 0 <= y.num /\ y.num <= y.den)
                 /\ (v.sign = "+" /\ v.log >= args.max_ic50) =>
                        (y.kind = "fin" /\ y.num = 0)

\* C4: applying the affinity transform to an IC50 value v <= 0 fails with a
\* ValueError; no regression target is returned for such a value.
C4_NonPositiveRaises ==
    (/\ op = "encode_allele_dataset"
     /\ \E i \in DOMAIN args.allele_dataset.ic50 :
           args.allele_dataset.ic50[i].sign # "+") =>
        exc = "ValueError"

\* ------------------------------------------------ encode_allele_datasets

\* The datasets that are values of an input mapping.
EncDatasetValues ==
    {AlleleDataset(<<Pos(1)>>), AlleleDataset(<<Pos(0), Pos(MaxLog)>>)}

\* The for loop over allele_datasets.items(): the three dictionaries after
\* the items given.
RECURSIVE EncodeLoop(_, _, _)
EncodeLoop(its, max_ic50, binary_encoding) ==
    IF its = <<>> THEN << <<>>, <<>>, <<>> >>
    ELSE LET sofar == EncodeLoop(SubSeq(its, 1, Len(its) - 1), max_ic50,
                                 binary_encoding)
             allele_name == normalize_allele_name(its[Len(its)][1])
             enc == encode_allele_dataset(its[Len(its)][2], max_ic50,
                                          binary_encoding).ret
         IN << DictSet(sofar[1], allele_name, enc[1]),
               DictSet(sofar[2], allele_name, enc[2]),
               DictSet(sofar[3], allele_name, enc[3]) >>

\* The loop with the keys left as they were given.
RECURSIVE EncodeLoopRawKeys(_, _, _)
EncodeLoopRawKeys(its, max_ic50, binary_encoding) ==
    IF its = <<>> THEN << <<>>, <<>>, <<>> >>
    ELSE LET sofar == EncodeLoopRawKeys(SubSeq(its, 1, Len(its) - 1), max_ic50,
                                        binary_encoding)
             allele_name == its[Len(its)][1]
             enc == encode_allele_dataset(its[Len(its)][2], max_ic50,
                                          binary_encoding).ret
         IN << DictSet(sofar[1], allele_name, enc[1]),
               DictSet(sofar[2], allele_name, enc[2]),
               DictSet(sofar[3], allele_name, enc[3]) >>

encode_allele_datasets_raw_keys(allele_datasets, max_ic50, binary_encoding) ==
    Return(EncodeLoopRawKeys(allele_datasets, max_ic50, binary_encoding))

encode_allele_datasets(allele_datasets, max_ic50, binary_encoding) ==
    Return(EncodeLoop(allele_datasets, max_ic50, binary_encoding))

InitEncodeAll ==
    /\ args \in [allele_datasets : Mappings(EncDatasetValues),
                 max_ic50 : MaxIC50Logs,
                 binary_encoding : BOOLEAN]
    /\ self = NoObject
    /\ op = "none"
    /\ ret = None
    /\ exc = "none"

EncodeAlleleDatasets ==
    /\ op = "none"
    /\ LET r == encode_allele_datasets(args.allele_datasets, args.max_ic50,
                                       args.binary_encoding)
       IN /\ ret' = r.ret
          /\ exc' = r.exc
    /\ op' = "encode_allele_datasets"
    /\ UNCHANGED <<args, self>>

NextEncodeAll == EncodeAlleleDatasets

SpecEncodeAll == InitEncodeAll /\ [][NextEncodeAll]_vars

\* The three dictionaries have the same keys in the same order.
SameKeys(r) == DictKeys(r[1]) = DictKeys(r[2]) /\ DictKeys(r[2]) = DictKeys(r[3])

\* The normalized names of the input's keys, in the input's order.
NormalizedKeySeq(m) == [i \in DOMAIN m |-> normalize_allele_name(m[i][1])]

\* s without the elements that occurred earlier in it.
RECURSIVE FirstOfEach(_)
FirstOfEach(s) ==
    IF s = <<>> THEN <<>>
    ELSE <<Head(s)>> \o FirstOfEach(SelectSeq(Tail(s), LAMBDA x : x # Head(s)))

BoolVectors(n) == [1..n -> BOOLEAN]

\* (a & b).sum() and its variants with ~: the number of positions where
\* both vectors have the values given.
CountWhere(a, va, b, vb) ==
    Cardinality({i \in DOMAIN a : a[i] = va /\ b[i] = vb})

FracAdd(a, b) == Fin(a.num * b.den + b.num * a.den, a.den * b.den)
FracMul(a, b) == Fin(a.num * b.num, a.den * b.den)
\* a / b for b > 0
FracDiv(a, b) == Fin(a.num * b.den, a.den * b.num)
FracEq(a, b) == a.kind = "fin" /\ b.kind = "fin" /\ a.num * b.den = b.num * a.den

\* f1_score with the factor 2 left out of the harmonic mean.
f1_score_no_factor(true_label, label_pred) ==
    LET tp == CountWhere(true_label, TRUE, label_pred, TRUE)
        fp == CountWhere(true_label, FALSE, label_pred, TRUE)
        fn == CountWhere(true_label, TRUE, label_pred, FALSE)
        recall == IF tp + fn > 0 THEN Fin(tp, tp + fn) ELSE Fin(0, 1)
        precision == IF tp + fp > 0 THEN Fin(tp, tp + fp) ELSE Fin(0, 1)
    IN IF FracAdd(precision, recall).num > 0
       THEN Return(FracDiv(FracMul(precision, recall),
                           FracAdd(precision, recall)))
       ELSE Return(Fin(0, 1))

f1_score(true_label, label_pred) ==
    LET tp == CountWhere(true_label, TRUE, label_pred, TRUE)
        fp == CountWhere(true_label, FALSE, label_pred, TRUE)
        fn == CountWhere(true_label, TRUE, label_pred, FALSE)
        recall == IF tp + fn > 0 THEN Fin(tp, tp + fn) ELSE Fin(0, 1)
        precision == IF tp + fp > 0 THEN Fin(tp, tp + fp) ELSE Fin(0, 1)
    IN IF FracAdd(precision, recall).num > 0
       THEN Return(FracDiv(FracMul(Fin(2, 1), FracMul(precision, recall)),
                           FracAdd(precision, recall)))
       ELSE Return(Fin(0, 1))

InitF1 ==
    /\ \E n \in 0..MaxLabels :
          args \in [true_label : BoolVectors(n), label_pred : BoolVectors(n)]
    /\ self = NoObject
    /\ op = "none"
    /\ ret = None
    /\ exc = "none"

F1Score ==
    /\ op = "none"
    /\ LET r == f1_score(args.true_label, args.label_pred)
       IN /\ ret' = r.ret
          /\ exc' = r.exc
    /\ op' = "f1_score"
    /\ UNCHANGED <<args, self>>

NextF1 == F1Score

SpecF1 == InitF1 /\ [][NextF1]_vars

\* The confusion counts of the arguments, position by position.
TP == Cardinality({i \in DOMAIN args.true_label :
                      args.true_label[i] /\ args.label_pred[i]})
FP == Cardinality({i \in DOMAIN args.true_label :
                      ~args.true_label[i] /\ args.label_pred[i]})
FN == Cardinality({i \in DOMAIN args.true_label :
                      args.true_label[i] /\ ~args.label_pred[i]})

\* C5: f1_score returns 2*precision*recall/(precision+recall) with
\* recall = tp/(tp+fn) and precision = tp/(tp+fp), each 0 when its
\* denominator is 0, and 0 when precision+recall = 0: that is
\* 2*tp/(2*tp+fp+fn) when tp > 0 and 0 otherwise, never nan or an error;
\* tp = 1, fp = 0, fn = 1 gives 2/3.
C5_F1Value ==
    op = "f1_score" =>
        /\ exc = "none"
        /\ ret.kind = "fin"
        /\ ret.den > 0
        /\ IF TP > 0 THEN FracEq(ret, Fin(2 * TP, 2 * TP + FP + FN))
                     ELSE ret.num = 0
        /\ (TP = 1 /\ FP = 0 /\ FN = 1) => FracEq(ret, Fin(2, 3))

\* The score of tp = 1, fp = 0, fn = 1.
C5_Witness ==
    /\ op = "f1_score"
    /\ TP = 1 /\ FP = 0 /\ FN = 1
    /\ FracEq(ret, Fin(2, 3))

\* --------------------------------------------------------- score_predictions

\* log 500 to the base 500: the binder threshold of ic50_pred <= 500.
Log500 == 1

Predictions == {Fin(p, PredDen) : p \in 0..PredDen}

\* a > b for fractions with positive denominators.
FracGreater(a, b) == a.num * b.den > b.num * a.den

\* sklearn.metrics.roc_auc_score: the share of (positive, negative) pairs
\* that the score orders rightly, a tie counting one half; ValueError when
\* y_true does not hold both classes.
roc_auc_score(y_true, y_score) ==
    LET pos == {i \in DOMAIN y_true : y_true[i]}
        neg == {i \in DOMAIN y_true : ~y_true[i]}
        won == {pr \in pos \X neg : FracGreater(y_score[pr[1]], y_score[pr[2]])}
        tied == {pr \in pos \X neg : FracEq(y_score[pr[1]], y_score[pr[2]])}
    IN IF pos = {} \/ neg = {} THEN Raise("ValueError")
       ELSE Return(Fin(2 * Cardinality(won) + Cardinality(tied),
                       2 * Cardinality(pos) * Cardinality(neg)))

\* max_ic50 ** (1.0 - predicted_log_ic50) <= 500, element-wise, on the
\* logarithms: log max_ic50 * (1 - pred) <= log 500.
LabelPred(predicted_log_ic50, max_ic50) ==
    [i \in DOMAIN predicted_log_ic50 |->
        LET y == predicted_log_ic50[i]
        IN max_ic50 * (y.den - y.num) <= Log500 * y.den]

\* np.mean of a boolean mask: nan for an empty one.
np_mean(mask) ==
    IF mask = <<>> THEN NaN
    ELSE Fin(Cardinality({i \in DOMAIN mask : mask[i]}), Len(mask))

score_predictions(predicted_log_ic50, true_label, max_ic50) ==
    LET auc == roc_auc_score(true_label, predicted_log_ic50)
        label_pred == LabelPred(predicted_log_ic50, max_ic50)
        same_mask == [i \in DOMAIN true_label |-> true_label[i] = label_pred[i]]
        accuracy == np_mean(same_mask)
        f1 == f1_score(true_label, label_pred)
    IN IF auc.exc # "none" THEN auc
       ELSE Return(<<accuracy, auc.ret, f1.ret>>)

InitScore ==
    /\ \E n \in 0..MaxLabels :
          args \in [predicted_log_ic50 : [1..n -> Predictions],
                    true_label : BoolVectors(n),
                    max_ic50 : MaxIC50Logs]
    /\ self = NoObject
    /\ op = "none"
    /\ ret = None
    /\ exc = "none"

ScorePredictions ==
    /\ op = "none"
    /\ LET r == score_predictions(args.predicted_log_ic50, args.true_label,
                                  args.max_ic50)
       IN /\ ret' = r.ret
          /\ exc' = r.exc
    /\ op' = "score_predictions"
    /\ UNCHANGED <<args, self>>

NextScore == ScorePredictions

SpecScore == InitScore /\ [][NextScore]_vars

\* C6: when the ground-truth labels are all of one class, scoring does not
\* raise: it returns (accuracy, auc, f1) with auc the degenerate sentinel.
C6_SingleClassScored ==
    (/\ op = "score_predictions"
     /\ args.true_label # <<>>
     /\ \A i \in DOMAIN args.true_label :
           args.true_label[i] = args.true_label[1]) =>
        /\ exc = "none"
        /\ Len(ret) = 3
        /\ ret[2].kind = "nan"

=============================================================================
